---------------------------- MODULE Spec2Model ----------------------------
(***************************************************************************)
(* MiniRTOS (rtos_app.cpp with the MiniRTOS.h primitives appended to it):  *)
(* the thread-safe Queue<T> (std::queue guarded by a std::mutex and a      *)
(* std::condition_variable) and the Task wrapper around std::thread.       *)
(*                                                                         *)
(* Threads are modelled at the granularity of the statements of send(),    *)
(* receive(), start() and join(); std::mutex, std::condition_variable and  *)
(* std::thread behave as the C++ standard library specifies them.          *)
(***************************************************************************)
EXTENDS Integers, Sequences, FiniteSets, Bags, TLC

\* ----------------------------------------------------------------- bounds
MaxItems == 2          \* send() calls made on the queue, all producers together
MaxTime  == 2          \* the steady clock is observed in 0..MaxTime (ms)
MaxCalls == 4          \* start() and join() calls made by the coordinating thread
MaxClock == 6          \* clock units that pass while the clock's callers run
MaxCycles == 201       \* cycles of the jitter loop that are followed
MaxLate  == 2          \* wake-ups of the jitter loop that are not on time

\* The threads using the one Queue (sensorQueue): two call send(), two call
\* receive(); and the Task objects the coordinating thread (main) owns.
Producers == {1, 2}
Consumers == {3, 4}
Procs     == Producers \cup Consumers
Tasks     == {1, 2}

\* The threads that read the tick count and call delay(), and the
\* durations (ms) they pass to delay(int ms).
Sleepers  == {1, 2}
Delays    == {-1, 0, 1, 2}

\* receive(item, timeout_ms = -1): the timeouts the callers pass
Timeouts  == {-1, 0, 1}

Free      == 0         \* mutex_ owned by no thread
NoThread  == 0         \* a std::thread that refers to no thread (not joinable)
NoItem    == <<>>      \* a receive's out-parameter before it is assigned

\* The items the producers send: T is any copyable type; an item is told
\* apart by its sender and the sender's running id (++id in vSensorTask).
Items == Producers \X (1..MaxItems)

VARIABLES
    queue_,       \* Queue::queue_   : std::queue<T>, front first
    mutex_,       \* Queue::mutex_   : the owning thread, or Free
    cond_var_,    \* Queue::cond_var_: the threads blocked in wait/wait_for
    pc,           \* each thread's position in send() / receive()
    nsent,        \* per producer: the id of its last item (int id)
    timeout_ms,   \* per consumer: the timeout_ms argument of the call
    callTime,     \* per consumer: the clock when receive() was called
    deadline,     \* per consumer: wait_for's absolute time (now + timeout)
    item,         \* per consumer: the out-parameter item
    result,       \* per consumer: receive's return value ("none" in a call)
    now,          \* std::chrono::steady_clock, in milliseconds
    sent,         \* history: the items in the order push() appended them
    received,     \* history: the items in the order pop() removed them
    quiet         \* history: the receivers whose call found the queue empty
                  \*          when it locked and has seen no push() since

VARIABLES
    running_,     \* Task::running_ : std::atomic<bool>, per Task
    thread_,      \* Task::thread_  : the thread it refers to, or NoThread
    threads,      \* the threads start() has created, in creation order: the
                  \*   Task whose lambda each runs and how far it has got
    mainPc,       \* the coordinating thread's position in start() / join()
    mainTask,     \* the Task of the call the coordinating thread is in
    mainLast,     \* the call that returned last: <<operation, Task, outcome>>
    ncalls,       \* start() and join() calls made so far
    terminated,   \* std::terminate() has been called: the process is gone
    faulted       \* the threads whose body threw

VARIABLES
    steady,       \* steady_clock::now().time_since_epoch(): milliseconds as
                  \*   w * 2^16 + lo, and sub further clock units
    cticks,       \* clock units passed since the start
    cpc,          \* per sleeper: its position (sample, delay, sample)
    before,       \* per sleeper: getTickCount() sampled before delay()
    after,        \* per sleeper: getTickCount() sampled after delay()
    dms,          \* per sleeper: the argument ms of delay()
    wakeAt        \* per sleeper: the time sleep_for sleeps until

VARIABLES
    jnow,           \* vJitterTask: steady_clock::now(), in clock units
    jpc,            \* vJitterTask: the statement it is at
    next_wake_time, \* vJitterTask::next_wake_time, in clock units
    actual_time,    \* vJitterTask::actual_time, in clock units
    jitter,         \* vJitterTask::jitter, microseconds
    max_jitter,     \* vJitterTask::max_jitter, microseconds
    total_jitter,   \* vJitterTask::total_jitter, microseconds
    count,          \* vJitterTask::count
    lateLeft,       \* wake-ups that may still be off time (model bound)
    jstart,         \* history: the clock at the loop's entry (line 63)
    cycle,          \* history: executions of next_wake_time += period
    window,         \* history: the bag of samples since the last summary
    out             \* history: the summaries written to std::cout, each
                    \*   with the bag of samples of its window

qvars == <<queue_, mutex_, cond_var_, pc, nsent, timeout_ms, callTime,
           deadline, item, result, now, sent, received, quiet>>

tvars == <<running_, thread_, threads, mainPc, mainTask, mainLast, ncalls,
           terminated, faulted>>

cvars == <<steady, cticks, cpc, before, after, dms, wakeAt>>

jvars == <<jnow, jpc, next_wake_time, actual_time, jitter, max_jitter,
           total_jitter, count, lateLeft, jstart, cycle, window, out>>

vars == <<qvars, tvars, cvars, jvars>>

\* ------------------------------------------------ std::queue<T> operations
push_front(q, x) == <<x>> \o q

push(q, x) == Append(q, x)

back(q) == q[Len(q)]

front(q) == Head(q)

pop_none(q) == q

pop(q) == Tail(q)

empty_always(q) == TRUE

empty(q) == q = <<>>

\* ------------------------------------- std::condition_variable operations
\* notify_one(): the sets of blocked threads one call may unblock
notify_all(ws) == {ws}

notify_none(ws) == {{}}

notify_one(ws) == IF ws = {} THEN {{}} ELSE {{w} : w \in ws}

\* wait_for's timer: the absolute time has been reached
ExpiredAlways(c) == TRUE

Expired(c) == now >= deadline[c]

\* ------------------------------------------------------------------ Kernel
\* Times are kept in limbs, so that counts of 2^32 ms and more are exact:
\* a millisecond count is w * Limb + lo with 0 <= lo < Limb.
Limb == 65536

\* the steady clock counts finer than a millisecond: units in one ms
UnitsPerMs == 2

\* -------------------------------------------------------------------- Init
QInit ==
    /\ queue_ = <<>>
    /\ mutex_ = Free
    /\ cond_var_ = {}
    /\ pc = [p \in Procs |-> "idle"]
    /\ nsent = [p \in Producers |-> 0]
    /\ timeout_ms = [c \in Consumers |-> -1]
    /\ callTime = [c \in Consumers |-> 0]
    /\ deadline = [c \in Consumers |-> 0]
    /\ item = [c \in Consumers |-> NoItem]
    /\ result = [c \in Consumers |-> "none"]
    /\ now = 0
    /\ sent = <<>>
    /\ received = <<>>
    /\ quiet = {}

TInit ==
    /\ running_ = [t \in Tasks |-> FALSE]
    /\ thread_ = [t \in Tasks |-> NoThread]
    /\ threads = <<>>
    /\ mainPc = "idle"
    /\ mainTask = 0
    /\ mainLast = <<>>
    /\ ncalls = 0
    /\ terminated = FALSE
    /\ faulted = {}

\* The steady clock's epoch is arbitrary (commonly the boot of the host):
\* the process may start with any count; two are taken, zero and two
\* milliseconds short of 2^32 ms.
ZeroTime == [w |-> 0, lo |-> 0, sub |-> 0]

ClockStarts == {ZeroTime, [w |-> Limb - 1, lo |-> Limb - 2, sub |-> 0]}

NoTick == [w |-> 0, lo |-> 0]

CInit ==
    /\ cticks = 0
    /\ cpc = [c \in Sleepers |-> "idle"]
    /\ before = [c \in Sleepers |-> NoTick]
    /\ after = [c \in Sleepers |-> NoTick]
    /\ dms = [c \in Sleepers |-> 0]
    /\ wakeAt = [c \in Sleepers |-> ZeroTime]

\* vJitterTask before its first statement
JInit ==
    /\ jnow = 0
    /\ jpc = "entry"
    /\ next_wake_time = 0
    /\ actual_time = 0
    /\ jitter = 0
    /\ max_jitter = 0
    /\ total_jitter = 0
    /\ count = 0
    /\ lateLeft = MaxLate
    /\ jstart = 0
    /\ cycle = 0
    /\ window = EmptyBag
    /\ out = <<>>

Init == QInit /\ TInit /\ CInit /\ JInit /\ steady = ZeroTime

ClockInit == QInit /\ TInit /\ CInit /\ JInit /\ steady \in ClockStarts

\* ------------------------------------------------------------ Queue::send
\* std::unique_lock<std::mutex> lock(mutex_);
SendLock(p, each, total) ==
    /\ pc[p] = "idle"
    /\ nsent[p] < each
    /\ Len(sent) < total
    /\ mutex_ = Free
    /\ mutex_' = p
    /\ pc' = [pc EXCEPT ![p] = "s_push"]
    /\ UNCHANGED <<queue_, cond_var_, nsent, timeout_ms, callTime, deadline,
                   item, result, now, sent, received,
                   quiet>>
    /\ UNCHANGED <<tvars, cvars, jvars>>

\* queue_.push(item);
SendPush(p) ==
    /\ pc[p] = "s_push"
    /\ LET x == <<p, nsent[p] + 1>> IN
         /\ queue_' = push(queue_, x)
         /\ sent' = Append(sent, x)
    /\ nsent' = [nsent EXCEPT ![p] = @ + 1]
    /\ pc' = [pc EXCEPT ![p] = "s_notify"]
    /\ quiet' = {}
    /\ UNCHANGED <<mutex_, cond_var_, timeout_ms, callTime, deadline, item,
                   result, now, received>>
    /\ UNCHANGED <<tvars, cvars, jvars>>

\* cond_var_.notify_one();
SendNotify(p) ==
    /\ pc[p] = "s_notify"
    /\ \E ws \in notify_one(cond_var_) :
         /\ cond_var_' = cond_var_ \ ws
         /\ pc' = [q \in Procs |->
                     IF q = p THEN "s_ret"
                     ELSE IF q \in ws THEN "r_woken" ELSE pc[q]]
    /\ UNCHANGED <<queue_, mutex_, nsent, timeout_ms, callTime, deadline,
                   item, result, now, sent, received,
                   quiet>>
    /\ UNCHANGED <<tvars, cvars, jvars>>

\* } : ~unique_lock releases mutex_, send returns
SendReturn(p) ==
    /\ pc[p] = "s_ret"
    /\ mutex_ = p
    /\ mutex_' = Free
    /\ pc' = [pc EXCEPT ![p] = "idle"]
    /\ UNCHANGED <<queue_, cond_var_, nsent, timeout_ms, callTime, deadline,
                   item, result, now, sent, received,
                   quiet>>
    /\ UNCHANGED <<tvars, cvars, jvars>>

\* --------------------------------------------------------- Queue::receive
\* bool receive(T& item, int timeout_ms = -1) is entered
RecvCall(c, t) ==
    /\ pc[c] = "idle"
    /\ timeout_ms' = [timeout_ms EXCEPT ![c] = t]
    /\ callTime' = [callTime EXCEPT ![c] = now]
    /\ pc' = [pc EXCEPT ![c] = "r_lock"]
    /\ UNCHANGED <<queue_, mutex_, cond_var_, nsent, deadline, item, result,
                   now, sent, received,
                   quiet>>
    /\ UNCHANGED <<tvars, cvars, jvars>>

\* std::unique_lock<std::mutex> lock(mutex_); if (timeout_ms < 0) ... else
\* wait_for(lock, milliseconds(timeout_ms), pred) fixes its absolute time.
RecvLock(c) ==
    /\ pc[c] = "r_lock"
    /\ mutex_ = Free
    /\ mutex_' = c
    /\ deadline' = [deadline EXCEPT ![c] =
                      IF timeout_ms[c] < 0 THEN 0 ELSE now + timeout_ms[c]]
    /\ pc' = [pc EXCEPT ![c] = "r_pred"]
    /\ quiet' = IF empty(queue_) THEN quiet \cup {c} ELSE quiet
    /\ UNCHANGED <<queue_, cond_var_, nsent, timeout_ms, callTime, item,
                   result, now, sent, received>>
    /\ UNCHANGED <<tvars, cvars, jvars>>

\* wait / wait_for test the predicate [this]{ return !queue_.empty(); } with
\* the lock held: true ends the wait, false releases mutex_ and blocks.
RecvPred(c) ==
    /\ pc[c] = "r_pred"
    /\ mutex_ = c
    /\ IF ~empty(queue_)
         THEN /\ pc' = [pc EXCEPT ![c] = "r_take"]
              /\ UNCHANGED <<mutex_, cond_var_>>
         ELSE /\ pc' = [pc EXCEPT ![c] = "r_wait"]
              /\ mutex_' = Free
              /\ cond_var_' = cond_var_ \cup {c}
    /\ UNCHANGED <<queue_, nsent, timeout_ms, callTime, deadline, item,
                   result, now, sent, received,
                   quiet>>
    /\ UNCHANGED <<tvars, cvars, jvars>>

\* a blocked thread may wake without any notify (spurious wake-up)
RecvSpurious(c) ==
    /\ pc[c] = "r_wait"
    /\ cond_var_' = cond_var_ \ {c}
    /\ pc' = [pc EXCEPT ![c] = "r_woken"]
    /\ UNCHANGED <<queue_, mutex_, nsent, timeout_ms, callTime, deadline,
                   item, result, now, sent, received,
                   quiet>>
    /\ UNCHANGED <<tvars, cvars, jvars>>

\* wait_for only: the absolute time is reached while the thread is blocked
RecvTimeout(c) ==
    /\ pc[c] = "r_wait"
    /\ timeout_ms[c] >= 0
    /\ Expired(c)
    /\ cond_var_' = cond_var_ \ {c}
    /\ pc' = [pc EXCEPT ![c] = "r_expired"]
    /\ UNCHANGED <<queue_, mutex_, nsent, timeout_ms, callTime, deadline,
                   item, result, now, sent, received,
                   quiet>>
    /\ UNCHANGED <<tvars, cvars, jvars>>

\* the woken thread takes mutex_ again before wait / wait_for goes on.
\* wait_until without predicate reports cv_status::timeout when the absolute
\* time has passed, however the thread was woken; otherwise the predicate
\* loop goes round.
RecvRelock(c) ==
    /\ pc[c] \in {"r_woken", "r_expired"}
    /\ mutex_ = Free
    /\ mutex_' = c
    /\ \E to \in BOOLEAN :
         /\ to => timeout_ms[c] >= 0 /\ Expired(c)
         /\ ~to => pc[c] = "r_woken"
         /\ pc' = [pc EXCEPT ![c] = IF to THEN "r_tmo" ELSE "r_pred"]
    /\ UNCHANGED <<queue_, cond_var_, nsent, timeout_ms, callTime, deadline,
                   item, result, now, sent, received,
                   quiet>>
    /\ UNCHANGED <<tvars, cvars, jvars>>

\* wait_for after cv_status::timeout: return pred(); a false makes receive
\* return false (line 168)
RecvTimedOut(c) ==
    /\ pc[c] = "r_tmo"
    /\ mutex_ = c
    /\ IF ~empty(queue_)
         THEN /\ pc' = [pc EXCEPT ![c] = "r_take"]
              /\ UNCHANGED result
         ELSE /\ pc' = [pc EXCEPT ![c] = "r_ret"]
              /\ result' = [result EXCEPT ![c] = "false"]
    /\ UNCHANGED <<queue_, mutex_, cond_var_, nsent, timeout_ms, callTime,
                   deadline, item, now, sent, received,
                   quiet>>
    /\ UNCHANGED <<tvars, cvars, jvars>>

\* item = queue_.front(); queue_.pop(); return true;
RecvTake(c) ==
    /\ pc[c] = "r_take"
    /\ mutex_ = c
    /\ item' = [item EXCEPT ![c] = front(queue_)]
    /\ received' = Append(received, front(queue_))
    /\ queue_' = pop(queue_)
    /\ result' = [result EXCEPT ![c] = "true"]
    /\ pc' = [pc EXCEPT ![c] = "r_ret"]
    /\ UNCHANGED <<mutex_, cond_var_, nsent, timeout_ms, callTime, deadline,
                   now, sent,
                   quiet>>
    /\ UNCHANGED <<tvars, cvars, jvars>>

\* } : ~unique_lock releases mutex_, receive returns
RecvReturn(c) ==
    /\ pc[c] = "r_ret"
    /\ mutex_ = c
    /\ mutex_' = Free
    /\ pc' = [pc EXCEPT ![c] = "idle"]
    /\ timeout_ms' = [timeout_ms EXCEPT ![c] = -1]
    /\ callTime' = [callTime EXCEPT ![c] = 0]
    /\ deadline' = [deadline EXCEPT ![c] = 0]
    /\ item' = [item EXCEPT ![c] = NoItem]
    /\ result' = [result EXCEPT ![c] = "none"]
    /\ quiet' = quiet \ {c}
    /\ UNCHANGED <<queue_, cond_var_, nsent, now, sent, received>>
    /\ UNCHANGED <<tvars, cvars, jvars>>

\* ------------------------------------------------------------ std::thread
\* thread_.joinable(): thread_ refers to a thread
joinable(t) == thread_[t] # NoThread

\* the guard of join(): if (thread_.joinable())
join_unguarded(t) == TRUE

join_guard(t) == joinable(t)

\* thread_.join() returns once the thread's function has returned
finished_always(k) == TRUE

finished(k) == threads[k].st = "ended"

\* the executions of Task t's body that start() has created
execs(t) == {k \in 1..Len(threads) : threads[k].task = t}

\* start() calls made on Task t (each reaches the std::thread constructor)
StartCalls(t) ==
    Cardinality(execs(t))
        + (IF mainPc = "start_thread" /\ mainTask = t THEN 1 ELSE 0)

\* the Task's execution state: NotStarted until a thread runs its lambda,
\* Running while one does, Ended when every one has returned
TaskState(t) ==
    IF execs(t) = {} THEN "NotStarted"
    ELSE IF \E k \in execs(t) : threads[k].st # "ended" THEN "Running"
    ELSE "Ended"

\* ------------------------------------------------------------ Task::start
\* running_ = true;
StartCall(t) ==
    /\ ~terminated
    /\ mainPc = "idle"
    /\ ncalls < MaxCalls
    /\ ncalls' = ncalls + 1
    /\ running_' = [running_ EXCEPT ![t] = TRUE]
    /\ mainPc' = "start_thread"
    /\ mainTask' = t
    /\ mainLast' = <<>>
    /\ UNCHANGED <<thread_, threads, terminated, faulted>>
    /\ UNCHANGED <<qvars, cvars, jvars>>

\* std::thread([this]() { ... }) : the temporary is constructed, and the new
\* thread of execution begins to run the lambda
StartThread ==
    /\ ~terminated
    /\ mainPc = "start_thread"
    /\ threads' = Append(threads, [task |-> mainTask, st |-> "created"])
    /\ mainPc' = "start_assign"
    /\ UNCHANGED <<running_, thread_, mainTask, mainLast, ncalls, terminated,
                   faulted>>
    /\ UNCHANGED <<qvars, cvars, jvars>>

\* thread_ = <temporary> : std::thread's move assignment calls
\* std::terminate() when thread_ is joinable, else takes over the new thread
StartAssign ==
    /\ ~terminated
    /\ mainPc = "start_assign"
    /\ IF joinable(mainTask)
         THEN /\ terminated' = TRUE
              /\ UNCHANGED <<thread_, mainPc, mainLast>>
         ELSE /\ thread_' = [thread_ EXCEPT ![mainTask] = Len(threads)]
              /\ mainPc' = "idle"
              /\ mainLast' = <<"start", mainTask, "ok">>
              /\ UNCHANGED terminated
    /\ UNCHANGED <<running_, threads, mainTask, ncalls, faulted>>
    /\ UNCHANGED <<qvars, cvars, jvars>>

\* ------------------------------------------------------------- Task::join
\* if (thread_.joinable()) { ... } : a Task whose thread_ is not joinable
\* makes join() return at once
JoinCall(t) ==
    /\ ~terminated
    /\ mainPc = "idle"
    /\ ncalls < MaxCalls
    /\ ncalls' = ncalls + 1
    /\ mainTask' = t
    /\ IF join_guard(t)
         THEN /\ mainPc' = "join_wait"
              /\ mainLast' = <<>>
         ELSE /\ mainPc' = "idle"
              /\ mainLast' = <<"join", t, "ok">>
    /\ UNCHANGED <<running_, thread_, threads, terminated, faulted>>
    /\ UNCHANGED <<qvars, cvars, jvars>>

\* thread_.join(); : blocks until the thread has finished and leaves thread_
\* not joinable; on a std::thread that is not joinable it throws
\* std::system_error, which join() lets through to its caller
JoinWait ==
    /\ ~terminated
    /\ mainPc = "join_wait"
    /\ IF thread_[mainTask] = NoThread
         THEN /\ mainLast' = <<"join", mainTask, "error">>
              /\ UNCHANGED thread_
         ELSE /\ finished(thread_[mainTask])
              /\ thread_' = [thread_ EXCEPT ![mainTask] = NoThread]
              /\ mainLast' = <<"join", mainTask, "ok">>
    /\ mainPc' = "idle"
    /\ UNCHANGED <<running_, threads, mainTask, ncalls, terminated, faulted>>
    /\ UNCHANGED <<qvars, cvars, jvars>>

\* --------------------------------------------- the lambda a Task's thread runs
\* std::cout << "[System] Task Started: " ...; then func_() is entered
ThreadBegin(k) ==
    /\ ~terminated
    /\ threads[k].st = "created"
    /\ threads' = [threads EXCEPT ![k].st = "body"]
    /\ UNCHANGED <<running_, thread_, mainPc, mainTask, mainLast, ncalls,
                   terminated, faulted>>
    /\ UNCHANGED <<qvars, cvars, jvars>>

\* func_() returns
BodyReturn(k) ==
    /\ ~terminated
    /\ threads[k].st = "body"
    /\ threads' = [threads EXCEPT ![k].st = "returned"]
    /\ UNCHANGED <<running_, thread_, mainPc, mainTask, mainLast, ncalls,
                   terminated, faulted>>
    /\ UNCHANGED <<qvars, cvars, jvars>>

\* func_() throws: nothing in the lambda catches, and an exception that
\* leaves a std::thread's function calls std::terminate()
BodyFault(k) ==
    /\ ~terminated
    /\ threads[k].st = "body"
    /\ faulted' = faulted \cup {k}
    /\ terminated' = TRUE
    /\ UNCHANGED <<running_, thread_, threads, mainPc, mainTask, mainLast,
                   ncalls>>
    /\ UNCHANGED <<qvars, cvars, jvars>>

\* std::cout << "[System] Task Ended: " ...; the lambda returns
ThreadEnd(k) ==
    /\ ~terminated
    /\ threads[k].st = "returned"
    /\ threads' = [threads EXCEPT ![k].st = "ended"]
    /\ UNCHANGED <<running_, thread_, mainPc, mainTask, mainLast, ncalls,
                   terminated, faulted>>
    /\ UNCHANGED <<qvars, cvars, jvars>>

\* ------------------------------------------------------------ Kernel (clock)
\* t + d milliseconds, for a time t (with or without sub) and any integer d
MsAdd(t, d) ==
    [t EXCEPT !.w = t.w + ((t.lo + d) \div Limb), !.lo = (t.lo + d) % Limb]

\* a < b for millisecond counts
MsLess(a, b) == a.w < b.w \/ (a.w = b.w /\ a.lo < b.lo)

\* a <= b for times of the steady clock
TimeLE(a, b) ==
    \/ MsLess(a, b)
    \/ (a.w = b.w /\ a.lo = b.lo /\ a.sub <= b.sub)

\* duration_cast<milliseconds>(...).count() : the sub-millisecond part goes
ToMs(t) == [w |-> t.w, lo |-> t.lo]

\* (uint32_t) of a millisecond count: the count modulo 2^32
Uint32(m) == [w |-> m.w % Limb, lo |-> m.lo]

\* Kernel::getTickCount()
getTickCount == Uint32(ToMs(steady))

\* the steady clock advances by one unit
ClockTick ==
    /\ cticks < MaxClock
    /\ cticks' = cticks + 1
    /\ steady' = IF steady.sub + 1 < UnitsPerMs
                   THEN [steady EXCEPT !.sub = @ + 1]
                   ELSE [MsAdd(steady, 1) EXCEPT !.sub = 0]
    /\ UNCHANGED <<cpc, before, after, dms, wakeAt>>
    /\ UNCHANGED <<qvars, tvars, jvars>>

\* uint32_t t0 = Kernel::getTickCount();
SampleBefore(c) ==
    /\ cpc[c] = "idle"
    /\ before' = [before EXCEPT ![c] = getTickCount]
    /\ after' = [after EXCEPT ![c] = NoTick]
    /\ cpc' = [cpc EXCEPT ![c] = "sampled"]
    /\ UNCHANGED <<steady, cticks, dms, wakeAt>>
    /\ UNCHANGED <<qvars, tvars, jvars>>

\* Kernel::delay(ms): std::this_thread::sleep_for(milliseconds(ms)), which
\* returns at once for a duration <= 0 and else blocks until now() + ms
DelayCall(c, d) ==
    /\ cpc[c] = "sampled"
    /\ dms' = [dms EXCEPT ![c] = d]
    /\ wakeAt' = [wakeAt EXCEPT ![c] = IF d <= 0 THEN steady ELSE MsAdd(steady, d)]
    /\ cpc' = [cpc EXCEPT ![c] = "sleeping"]
    /\ UNCHANGED <<steady, cticks, before, after>>
    /\ UNCHANGED <<qvars, tvars, jvars>>

\* sleep_for returns: not before the time is reached, any time after it
DelayReturn(c) ==
    /\ cpc[c] = "sleeping"
    /\ TimeLE(wakeAt[c], steady)
    /\ cpc' = [cpc EXCEPT ![c] = "woke"]
    /\ UNCHANGED <<steady, cticks, before, after, dms, wakeAt>>
    /\ UNCHANGED <<qvars, tvars, jvars>>

\* uint32_t t1 = Kernel::getTickCount();
SampleAfter(c) ==
    /\ cpc[c] = "woke"
    /\ after' = [after EXCEPT ![c] = getTickCount]
    /\ cpc' = [cpc EXCEPT ![c] = "done"]
    /\ UNCHANGED <<steady, cticks, before, dms, wakeAt>>
    /\ UNCHANGED <<qvars, tvars, jvars>>

\* the caller goes round again
SampleAgain(c) ==
    /\ cpc[c] = "done"
    /\ cpc' = [cpc EXCEPT ![c] = "idle"]
    /\ before' = [before EXCEPT ![c] = NoTick]
    /\ after' = [after EXCEPT ![c] = NoTick]
    /\ dms' = [dms EXCEPT ![c] = 0]
    /\ wakeAt' = [wakeAt EXCEPT ![c] = ZeroTime]
    /\ UNCHANGED <<steady, cticks>>
    /\ UNCHANGED <<qvars, tvars, jvars>>

\* ------------------------------------------------------------ vJitterTask
\* the steady clock counts finer than a microsecond: units in one us
UnitsPerUs == 2

\* const auto period = milliseconds(10);
PeriodMs == 10

Period == PeriodMs * 1000 * UnitsPerUs

\* if (count >= 100)
WindowSize == 100

\* The clock readings at which the task may reach line 63, and how far off
\* its ideal time a wake-up may be, in clock units: sleep_until returns
\* late by any amount, and "early wakeups (negative) are rare with
\* sleep_until but possible" (line 80).
StartTimes == {0, 7}
Lateness   == {-3, 0, 5, 601, 50001}

\* next_wake_time += period;
NextWakeFromNow(nwt, t) == t + Period

NextWake(nwt, t) == nwt + Period

\* duration_cast<microseconds>(d).count(): the quotient, truncated toward 0
ToUs(d) == IF d >= 0 THEN d \div UnitsPerUs ELSE -((-d) \div UnitsPerUs)

\* if (jitter < 0) jitter = 0;
NoClamp(j) == j

Clamp(j) == IF j < 0 THEN 0 ELSE j

\* if (jitter > max_jitter) max_jitter = jitter;
MaxLast(m, j) == j

MaxUpdate(m, j) == IF j > m THEN j ELSE m

\* total_jitter / count : long long division
Avg(total, n) == total \div n

\* total_jitter = 0; (and max_jitter = 0, count = 0) after a summary
KeepTotal(total) == total

ResetTotal(total) == 0

\* auto next_wake_time = steady_clock::now(); ... "Starting 100Hz loop..."
JitterEntry(s) ==
    /\ jpc = "entry"
    /\ jnow' = s
    /\ jstart' = s
    /\ next_wake_time' = s
    /\ jpc' = "advance"
    /\ UNCHANGED <<actual_time, jitter, max_jitter, total_jitter, count,
                   lateLeft, cycle, window, out>>
    /\ UNCHANGED <<qvars, tvars, cvars>>

\* while (true) { next_wake_time += period;
JitterAdvance ==
    /\ jpc = "advance"
    /\ cycle < MaxCycles
    /\ next_wake_time' = NextWake(next_wake_time, jnow)
    /\ cycle' = cycle + 1
    /\ jpc' = "sleep"
    /\ UNCHANGED <<jnow, actual_time, jitter, max_jitter, total_jitter,
                   count, lateLeft, jstart, window, out>>
    /\ UNCHANGED <<qvars, tvars, cvars>>

\* std::this_thread::sleep_until(next_wake_time);
\* auto actual_time = steady_clock::now();
\* The task runs again l units after the later of the call and the wake
\* time (l >= 0), or -l units before the wake time (l < 0).
JitterWake(l) ==
    /\ jpc = "sleep"
    /\ l # 0 => lateLeft > 0
    /\ l < 0 => next_wake_time + l >= jnow
    /\ LET base == IF jnow > next_wake_time THEN jnow ELSE next_wake_time
       IN  /\ jnow' = base + l
           /\ actual_time' = base + l
    /\ lateLeft' = IF l # 0 THEN lateLeft - 1 ELSE lateLeft
    /\ jpc' = "measure"
    /\ UNCHANGED <<next_wake_time, jitter, max_jitter, total_jitter, count,
                   jstart, cycle, window, out>>
    /\ UNCHANGED <<qvars, tvars, cvars>>

\* auto jitter = duration_cast<microseconds>(actual_time - next_wake_time)
\*                   .count();  if (jitter < 0) jitter = 0;
JitterMeasure ==
    /\ jpc = "measure"
    /\ jitter' = Clamp(ToUs(actual_time - next_wake_time))
    /\ jpc' = "accumulate"
    /\ UNCHANGED <<jnow, next_wake_time, actual_time, max_jitter,
                   total_jitter, count, lateLeft, jstart, cycle, window, out>>
    /\ UNCHANGED <<qvars, tvars, cvars>>

\* if (jitter > max_jitter) max_jitter = jitter;
\* total_jitter += jitter;  count++;
JitterAccumulate ==
    /\ jpc = "accumulate"
    /\ max_jitter' = MaxUpdate(max_jitter, jitter)
    /\ total_jitter' = total_jitter + jitter
    /\ count' = count + 1
    /\ window' = window (+) SetToBag({jitter})
    /\ jpc' = "report"
    /\ UNCHANGED <<jnow, next_wake_time, actual_time, jitter, lateLeft,
                   jstart, cycle, out>>
    /\ UNCHANGED <<qvars, tvars, cvars>>

\* if (count >= 100) { std::cout << ... max_jitter ... (total_jitter / count);
\*                     max_jitter = 0; total_jitter = 0; count = 0; } }
JitterReport ==
    /\ jpc = "report"
    /\ IF count >= WindowSize
         THEN /\ out' = Append(out, [max |-> max_jitter,
                                     avg |-> Avg(total_jitter, count),
                                     win |-> window])
              /\ max_jitter' = 0
              /\ total_jitter' = ResetTotal(total_jitter)
              /\ count' = 0
              /\ window' = EmptyBag
         ELSE UNCHANGED <<out, max_jitter, total_jitter, count, window>>
    /\ jitter' = 0
    /\ actual_time' = 0
    /\ jpc' = "advance"
    /\ UNCHANGED <<jnow, next_wake_time, lateLeft, jstart, cycle>>
    /\ UNCHANGED <<qvars, tvars, cvars>>

\* the steady clock advances
Tick ==
    /\ now < MaxTime
    /\ now' = now + 1
    /\ UNCHANGED <<queue_, mutex_, cond_var_, pc, nsent, timeout_ms,
                   callTime, deadline, item, result, sent, received,
                   quiet>>
    /\ UNCHANGED <<tvars, cvars, jvars>>

\* ----------------------------------------------------------- specification
Next ==
    \/ \E p \in Producers : SendLock(p, MaxItems, MaxItems)
    \/ \E p \in Producers : SendPush(p)
    \/ \E p \in Producers : SendNotify(p)
    \/ \E p \in Producers : SendReturn(p)
    \/ \E c \in Consumers, t \in Timeouts : RecvCall(c, t)
    \/ \E c \in Consumers : RecvLock(c)
    \/ \E c \in Consumers : RecvPred(c)
    \/ \E c \in Consumers : RecvSpurious(c)
    \/ \E c \in Consumers : RecvTimeout(c)
    \/ \E c \in Consumers : RecvRelock(c)
    \/ \E c \in Consumers : RecvTimedOut(c)
    \/ \E c \in Consumers : RecvTake(c)
    \/ \E c \in Consumers : RecvReturn(c)
    \/ Tick

Spec == Init /\ [][Next]_vars

\* The Task objects alone: the coordinating thread makes any MaxCalls calls
\* of start() and join(), on any Task, and the created threads run.
TaskNext ==
    \/ \E t \in Tasks : StartCall(t)
    \/ StartThread
    \/ StartAssign
    \/ \E t \in Tasks : JoinCall(t)
    \/ JoinWait
    \/ \E k \in 1..Len(threads) : ThreadBegin(k)
    \/ \E k \in 1..Len(threads) : BodyReturn(k)
    \/ \E k \in 1..Len(threads) : BodyFault(k)
    \/ \E k \in 1..Len(threads) : ThreadEnd(k)

SpecTask == Init /\ [][TaskNext]_vars

\* The clock alone: two threads sample the tick count around a delay().
ClockNext ==
    \/ ClockTick
    \/ \E c \in Sleepers : SampleBefore(c)
    \/ \E c \in Sleepers, d \in Delays : DelayCall(c, d)
    \/ \E c \in Sleepers : DelayReturn(c)
    \/ \E c \in Sleepers : SampleAfter(c)
    \/ \E c \in Sleepers : SampleAgain(c)

SpecClock == ClockInit /\ [][ClockNext]_vars

\* The jitter task alone: it is the only thread that touches its variables.
JitterNext ==
    \/ \E s \in StartTimes : JitterEntry(s)
    \/ JitterAdvance
    \/ \E l \in Lateness : JitterWake(l)
    \/ JitterMeasure
    \/ JitterAccumulate
    \/ JitterReport

SpecJitter == Init /\ [][JitterNext]_vars

\* Every producer sends one item and one consumer calls receive() without a
\* timeout again and again. The host scheduler lets every thread that can
\* take a step take one (weak fairness), and a thread that waits for mutex_
\* gets it if it is released again and again (strong fairness on the lock
\* steps); a spurious wake-up is never owed to anybody.
LiveConsumer == 3

ProducerLock(p) == SendLock(p, 1, MaxItems)

ProducerStep(p) == SendPush(p) \/ SendNotify(p) \/ SendReturn(p)

ConsumerLock(c) == RecvLock(c) \/ RecvRelock(c)

ConsumerStep(c) ==
    \/ RecvCall(c, -1)
    \/ RecvPred(c)
    \/ RecvTake(c)
    \/ RecvReturn(c)

LiveNext ==
    \/ \E p \in Producers : ProducerLock(p)
    \/ \E p \in Producers : SendPush(p)
    \/ \E p \in Producers : SendNotify(p)
    \/ \E p \in Producers : SendReturn(p)
    \/ RecvCall(LiveConsumer, -1)
    \/ RecvLock(LiveConsumer)
    \/ RecvPred(LiveConsumer)
    \/ RecvSpurious(LiveConsumer)
    \/ RecvRelock(LiveConsumer)
    \/ RecvTake(LiveConsumer)
    \/ RecvReturn(LiveConsumer)

SpecLive ==
    /\ Init
    /\ [][LiveNext]_vars
    /\ \A p \in Producers : SF_vars(ProducerLock(p)) /\ WF_vars(ProducerStep(p))
    /\ SF_vars(ConsumerLock(LiveConsumer))
    /\ WF_vars(ConsumerStep(LiveConsumer))

\* Receivers compete: the producers send one item each and both consumers
\* call receive() again and again, without a timeout or with timeout 0 (a
\* wait_for whose time runs out at once). Fairness as in SpecLive; nobody
\* owes a call of receive(), a spurious wake-up or the firing of a timer.
CompeteTimeouts == {-1, 0}

CompeteStep(c) ==
    \/ RecvPred(c)
    \/ RecvTimedOut(c)
    \/ RecvTake(c)
    \/ RecvReturn(c)

CompeteNext ==
    \/ \E p \in Producers : ProducerLock(p)
    \/ \E p \in Producers : SendPush(p)
    \/ \E p \in Producers : SendNotify(p)
    \/ \E p \in Producers : SendReturn(p)
    \/ \E c \in Consumers, t \in CompeteTimeouts : RecvCall(c, t)
    \/ \E c \in Consumers : RecvLock(c)
    \/ \E c \in Consumers : RecvPred(c)
    \/ \E c \in Consumers : RecvSpurious(c)
    \/ \E c \in Consumers : RecvTimeout(c)
    \/ \E c \in Consumers : RecvRelock(c)
    \/ \E c \in Consumers : RecvTimedOut(c)
    \/ \E c \in Consumers : RecvTake(c)
    \/ \E c \in Consumers : RecvReturn(c)

SpecCompete ==
    /\ Init
    /\ [][CompeteNext]_vars
    /\ \A p \in Producers : SF_vars(ProducerLock(p)) /\ WF_vars(ProducerStep(p))
    /\ \A c \in Consumers : SF_vars(ConsumerLock(c)) /\ WF_vars(CompeteStep(c))

\* ------------------------------------------------------------------ claims
IsPrefix(a, b) ==
    /\ Len(a) <= Len(b)
    /\ \A i \in 1..Len(a) : a[i] = b[i]

\* C1 (FIFO delivery): in every reachable state the sequence of items
\* removed by successful receives, in the order of the removals, is a prefix
\* of the sequence in which send() appended the items.
C1_FIFO == IsPrefix(received, sent)

\* two items sent by different producers have both been delivered
C1_Witness ==
    /\ Len(received) = 2
    /\ received[1][1] # received[2][1]

\* C2 (exactly-once delivery): the number of completed sends equals the
\* number of successful receives plus the queue length, no item is removed
\* twice, and an item a receive is returning is not in the queue any more.
C2_ExactlyOnce ==
    /\ Len(sent) = Len(received) + Len(queue_)
    /\ \A i, j \in 1..Len(received) : received[i] = received[j] => i = j
    /\ \A c \in Consumers : \A i \in 1..Len(queue_) :
         result[c] = "true" => queue_[i] # item[c]

\* both consumers have taken an item, one each
C2_Witness ==
    /\ Len(received) = 2
    /\ queue_ = <<>>
    /\ \E c \in Consumers :
         /\ pc[c] = "r_ret"
         /\ result[c] = "true"
         /\ item[c] = received[2]
         /\ timeout_ms[c] >= 0

\* C4 (receive timeout): a receive that is returning false was called with a
\* timeout T >= 0, at least T has passed since the call, it has consumed
\* nothing and the queue is empty at that moment; and a receive whose call
\* found the queue empty and saw no send before it returns, returns false.
C4_Timeout ==
    \A c \in Consumers :
        pc[c] = "r_ret" =>
            /\ result[c] = "false" =>
                  /\ timeout_ms[c] >= 0
                  /\ now - callTime[c] >= timeout_ms[c]
                  /\ item[c] = NoItem
                  /\ empty(queue_)
                  /\ mutex_ = c
            /\ c \in quiet => result[c] = "false"

\* a receive with timeout 1 is returning false with the queue empty
C4_Witness ==
    \E c \in Consumers :
        /\ pc[c] = "r_ret"
        /\ result[c] = "false"
        /\ timeout_ms[c] = 1
        /\ c \in quiet

\* one step of send() by producer p, whichever statement it is at
SendStep(p) == SendPush(p) \/ SendNotify(p) \/ SendReturn(p)

\* C5 (send): push appends the item at the tail and leaves the items before
\* it alone; notify_one unblocks at most one waiting receiver; and a sender
\* that owns the lock can always take its next step, whatever the queue
\* length and whether or not any receiver waits.
C5_Send ==
    /\ [][\A p \in Producers :
            /\ (pc[p] = "s_push" /\ pc'[p] = "s_notify") =>
                  /\ Len(queue_') = Len(queue_) + 1
                  /\ queue_'[Len(queue_')] = <<p, nsent'[p]>>
                  /\ \A i \in 1..Len(queue_) : queue_'[i] = queue_[i]
            /\ (pc[p] = "s_notify" /\ pc'[p] = "s_ret") =>
                  /\ Cardinality({c \in Consumers :
                        pc[c] = "r_wait" /\ pc'[c] # "r_wait"}) <= 1
                  /\ queue_' = queue_]_vars
    /\ [](\A p \in Producers :
            pc[p] \in {"s_push", "s_notify", "s_ret"} => ENABLED SendStep(p))

\* a send has appended its item and woken one of the two waiting receivers
C5_Witness ==
    \E p \in Producers :
        /\ pc[p] = "s_ret"
        /\ queue_ = <<<<p, nsent[p]>>>>
        /\ \E c, d \in Consumers : pc[c] = "r_woken" /\ pc[d] = "r_wait"

\* C6 (receive on a non-empty queue): a receive that holds the lock and
\* finds the queue non-empty does not block (it keeps the lock and goes on to
\* take), and its take returns the head with success and leaves the rest
\* of the queue in order.
C6_ReceiveNonEmpty ==
    [][\A c \in Consumers :
         /\ (pc[c] \in {"r_pred", "r_tmo"} /\ ~empty(queue_) /\ pc'[c] # pc[c]) =>
               /\ pc'[c] = "r_take"
               /\ mutex_' = c
               /\ c \notin cond_var_'
               /\ queue_' = queue_
         /\ (pc[c] = "r_take" /\ pc'[c] # pc[c]) =>
               /\ pc'[c] = "r_ret"
               /\ result'[c] = "true"
               /\ item'[c] = Head(queue_)
               /\ queue_' = Tail(queue_)]_vars

\* a receive with a timeout has taken the head of a two-item queue
C6_Witness ==
    \E c \in Consumers :
        /\ pc[c] = "r_ret"
        /\ result[c] = "true"
        /\ timeout_ms[c] >= 0
        /\ Len(queue_) = 1
        /\ sent = <<item[c]>> \o queue_

\* C3 (blocking receive): with every producer sending one item and one
\* consumer calling receive() without timeout, under fair scheduling all the
\* items are eventually received, each once, and stay so; and a receive that
\* is pending when a send makes the queue hold exactly item x returns x.
AllDelivered ==
    /\ Len(received) = Cardinality(Producers)
    /\ {received[i] : i \in 1..Len(received)} = {<<p, 1>> : p \in Producers}
    /\ queue_ = <<>>

Pending(c) == pc[c] \in {"r_wait", "r_woken"}

C3_BlockingReceive ==
    /\ <>[]AllDelivered
    /\ \A x \in Items :
         (Pending(LiveConsumer) /\ queue_ = <<x>>)
            ~> (/\ pc[LiveConsumer] = "r_ret"
                /\ result[LiveConsumer] = "true"
                /\ item[LiveConsumer] = x)

\* the consumer is returning the last of the producers' items
C3_Witness ==
    /\ AllDelivered
    /\ pc[LiveConsumer] = "r_ret"
    /\ item[LiveConsumer] = received[Len(received)]
    /\ sent = received

\* the coordinating thread has just returned from operation op on Task t
Returned(op, t) ==
    /\ mainPc = "idle"
    /\ Len(mainLast) = 3
    /\ mainLast[1] = op
    /\ mainLast[2] = t

\* C7 (DoubleStart), as claimed: no Task ever gets a second execution of its
\* body, and a start() that returns after an earlier start() on the same
\* Task has signalled an error to its caller.
C7_DoubleStart ==
    \A t \in Tasks :
        /\ Cardinality(execs(t)) <= 1
        /\ (Returned("start", t) /\ StartCalls(t) >= 2) => mainLast[3] = "error"

\* C8 (join is idempotent): a join() called on a Task that has ended, joined
\* before or not, returns with no error and leaves the Task's execution
\* state, running_ and its threads as they were; and it never blocks: the
\* wait on the ended thread can return at once.
C8_JoinIdempotent ==
    /\ [][\A t \in Tasks :
            /\ (/\ mainPc = "idle"
                /\ ncalls' = ncalls + 1
                /\ mainTask' = t
                /\ mainPc' # "start_thread"
                /\ TaskState(t) = "Ended") =>
                  /\ mainPc' = "idle" => mainLast' = <<"join", t, "ok">>
                  /\ TaskState(t)' = "Ended"
                  /\ running_' = running_
                  /\ threads' = threads
                  /\ ~terminated'
            /\ (/\ mainPc = "join_wait"
                /\ mainTask = t
                /\ mainPc' = "idle"
                /\ TaskState(t) = "Ended") =>
                  /\ mainLast' = <<"join", t, "ok">>
                  /\ TaskState(t)' = "Ended"
                  /\ running_' = running_
                  /\ threads' = threads
                  /\ ~terminated']_vars
    /\ [](\A t \in Tasks :
            (~terminated /\ mainPc = "join_wait" /\ mainTask = t
               /\ TaskState(t) = "Ended") => ENABLED JoinWait)

\* a third join() in a row has returned on a Task that had ended
C8_Witness ==
    \E t \in Tasks :
        /\ Returned("join", t)
        /\ ncalls = 4
        /\ Len(threads) = 1
        /\ TaskState(t) = "Ended"
        /\ ~joinable(t)

\* C9 (join waits for Ended), as claimed: whenever join() has returned, from
\* whatever state it was called in, the Task is in state Ended.
C9_JoinWaitsFromAnyState ==
    \A t \in Tasks : Returned("join", t) => TaskState(t) = "Ended"

\* C9, amended: whenever join() has returned on a Task that has been
\* started, every execution of the Task's body has returned and its thread
\* has finished (state Ended), and no error was signalled.
C9_JoinWaitsIfStarted ==
    \A t \in Tasks :
        (Returned("join", t) /\ TaskState(t) # "NotStarted") =>
            /\ TaskState(t) = "Ended"
            /\ \A k \in execs(t) : threads[k].st = "ended"
            /\ mainLast[3] = "ok"

\* join() has returned on a Task that was started twice, each time joined
C9_Witness ==
    \E t \in Tasks :
        /\ Returned("join", t)
        /\ Cardinality(execs(t)) = 2
        /\ TaskState(t) = "Ended"

\* C10 (BodyFault isolation), as claimed: a fault leaving a Task's body does
\* not take the process down (the siblings and the coordinating thread go
\* on), and a join() that has returned on the faulted Task reports it.
C10_BodyFaultIsolated ==
    \A k \in faulted :
        /\ ~terminated
        /\ Returned("join", threads[k].task) => mainLast[3] = "fault"

\* the execution states in the order the lifecycle allows them
StateRank(st) ==
    IF st = "NotStarted" THEN 0 ELSE IF st = "Running" THEN 1 ELSE 2

\* C11 (Task lifecycle), as claimed: in every step a Task's execution state
\* stays where it is or moves to the next of NotStarted, Running, Ended
\* (never backward, never past Running), and once the Task has ended the
\* state it records says so: running_ is false.
C11_Lifecycle ==
    [][\A t \in Tasks :
         /\ \/ StateRank(TaskState(t)') = StateRank(TaskState(t))
            \/ StateRank(TaskState(t)') = StateRank(TaskState(t)) + 1
         /\ TaskState(t)' = "Ended" => ~running_'[t]]_vars

\* C11, the order of the states alone, as claimed: no step moves a Task's
\* execution state backward or past Running.
C11_NoBackward ==
    [][\A t \in Tasks :
         \/ StateRank(TaskState(t)') = StateRank(TaskState(t))
         \/ StateRank(TaskState(t)') = StateRank(TaskState(t)) + 1]_vars

\* C12 (tick monotonicity), as claimed: of two getTickCount() calls of one
\* thread, the later never returns less than the earlier, whatever the
\* steady clock reads.
C12_TickMonotonic ==
    \A c \in Sleepers : cpc[c] = "done" => ~MsLess(after[c], before[c])

\* C12 below the wrap: while the steady clock reads less than 2^32 ms, the
\* later sample is not less than the earlier.
C12_MonotonicBelowWrap ==
    \A c \in Sleepers :
        (cpc[c] = "done" /\ steady.w < Limb) => ~MsLess(after[c], before[c])

\* C13 (delay lower bound), as claimed: the samples taken before and after
\* delay(D) satisfy after >= before + D.
C13_DelayLowerBound ==
    \A c \in Sleepers :
        cpc[c] = "done" => ~MsLess(after[c], MsAdd(before[c], dms[c]))

\* a - b as uint32_t arithmetic computes it (modulo 2^32)
Uint32Sub(a, b) ==
    [w |-> (a.w - b.w + ((a.lo - b.lo) \div Limb)) % Limb,
     lo |-> (a.lo - b.lo) % Limb]

\* C13 in uint32_t arithmetic: (after - before) modulo 2^32 is at least D.
C13_DelayModular ==
    \A c \in Sleepers :
        cpc[c] = "done" =>
            ~MsLess(Uint32Sub(after[c], before[c]),
                    [w |-> 0, lo |-> IF dms[c] > 0 THEN dms[c] ELSE 0])

\* ------------------------------------------------------------ jitter loop
RECURSIVE SumOver(_, _)
SumOver(B, S) ==
    IF S = {} THEN 0
    ELSE LET x == CHOOSE y \in S : TRUE
         IN  x * B[x] + SumOver(B, S \ {x})

\* the sum and the largest of a bag of samples
BagSum(B) == SumOver(B, DOMAIN B)

BagMax(B) ==
    IF DOMAIN B = {} THEN 0
    ELSE CHOOSE x \in DOMAIN B : \A y \in DOMAIN B : y <= x

\* C14: a window of 100 cycles of lateness 0 is reported as max 0, mean 0;
\* a window of one cycle of lateness L and 99 cycles of lateness 0 is
\* reported as max L and mean L/100 (the quotient of the long long
\* division total_jitter / count), for every L.
C14_WindowStats ==
    \A i \in 1..Len(out) :
        /\ out[i].win = (0 :> WindowSize) => out[i].max = 0 /\ out[i].avg = 0
        /\ \A L \in DOMAIN out[i].win :
              (L > 0 /\ out[i].win = (0 :> (WindowSize - 1)) @@ (L :> 1))
                  => out[i].max = L /\ out[i].avg = L \div WindowSize

C14_Witness ==
    \E i \in 1..Len(out) :
        /\ out[i].win = (0 :> (WindowSize - 1)) @@ (300 :> 1)
        /\ out[i].max = 300
        /\ out[i].avg = 3

\* C16: after the k-th execution of next_wake_time += period the ideal wake
\* time is (clock at loop entry) + k * period, for every k >= 1 and
\* whatever the lateness of the earlier wake-ups was.
C16_DriftFree ==
    jpc # "entry" => next_wake_time = jstart + cycle * Period

C16_Witness ==
    /\ jpc = "sleep"
    /\ cycle >= 2
    /\ jnow > next_wake_time
    /\ next_wake_time = jstart + cycle * Period

\* C17: the sample of a cycle is max(0, actual - ideal) in whole
\* microseconds: 0 for a wake-up at or before the ideal time, and the
\* (truncated) lateness itself, however large, for a late one.
C17_Lateness ==
    jpc = "accumulate" =>
        LET d == actual_time - next_wake_time
        IN  /\ jitter >= 0
            /\ d <= 0 => jitter = 0
            /\ d > 0 => /\ jitter * UnitsPerUs <= d
                        /\ d < (jitter + 1) * UnitsPerUs

C17_Witness ==
    /\ jpc = "accumulate"
    /\ jitter > PeriodMs * 1000
    /\ jitter = ToUs(actual_time - next_wake_time)

\* the cycles of the loop that have run to their end
Completed == IF jpc \in {"entry", "advance"} THEN cycle ELSE cycle - 1

\* C18: one summary is written per 100 completed cycles; the running max,
\* sum and count are those of the samples taken since the last summary
\* (0 right after one), each summary is the max and the mean of the 100
\* samples of its own window, and the loop always has a next step.
C18_WindowReset ==
    /\ Len(out) = Completed \div WindowSize
    /\ jpc = "advance" =>
          /\ count = cycle % WindowSize
          /\ count = BagCardinality(window)
          /\ max_jitter = BagMax(window)
          /\ total_jitter = BagSum(window)
    /\ \A i \in 1..Len(out) :
          /\ BagCardinality(out[i].win) = WindowSize
          /\ out[i].max = BagMax(out[i].win)
          /\ out[i].avg = BagSum(out[i].win) \div WindowSize
    /\ (jpc # "entry" /\ cycle < MaxCycles) => ENABLED JitterNext

C18_Witness ==
    /\ Len(out) = 2
    /\ out[1].max > 0
    /\ out[2].max = 0
    /\ out[2].avg = 0
    /\ jpc = "advance"
    /\ count = 0

\* C19 (timeout/arrival race): a receive returns false only from wait_for's
\* timeout with the lock held and the queue empty; a receiver whose time has
\* run out and that takes the lock again with an item in the queue keeps the
\* lock, nobody else touches the queue meanwhile, and it goes on to take the
\* head and return true. So no receive is returning false while the queue
\* holds an item.
C19_TimeoutRace ==
    /\ [](\A c \in Consumers :
            /\ (pc[c] = "r_ret" /\ result[c] = "false") =>
                  queue_ = <<>> /\ mutex_ = c
            /\ pc[c] \in {"r_tmo", "r_take"} => mutex_ = c
            /\ pc[c] = "r_take" => queue_ # <<>>)
    /\ [][\A c \in Consumers :
            /\ (pc[c] # "r_ret" /\ pc'[c] = "r_ret" /\ result'[c] = "false") =>
                  pc[c] = "r_tmo" /\ queue_ = <<>> /\ timeout_ms[c] >= 0
            /\ (pc[c] = "r_tmo" /\ queue_ # <<>> /\ pc'[c] # pc[c]) =>
                  pc'[c] = "r_take" /\ result'[c] = "none"
            /\ (pc[c] \in {"r_tmo", "r_take"} /\ pc'[c] = pc[c]) =>
                  queue_' = queue_
            /\ (pc[c] = "r_take" /\ pc'[c] # pc[c]) =>
                  /\ pc'[c] = "r_ret"
                  /\ result'[c] = "true"
                  /\ item'[c] = queue_[1]]_vars

\* a receiver's time ran out, an item was pushed, and the receiver now holds
\* the lock again with that item in the queue
C19_Witness ==
    \E c \in Consumers :
        /\ pc[c] = "r_tmo"
        /\ timeout_ms[c] = 1
        /\ now >= deadline[c]
        /\ queue_ # <<>>
        /\ mutex_ = c

\* the receivers that are in a call and not blocked in cond_var_, and have
\* not taken an item yet
Awake == {c \in Consumers :
            pc[c] \in {"r_lock", "r_pred", "r_woken", "r_expired", "r_tmo",
                       "r_take"}}

\* the senders that have pushed and not yet called notify_one()
Notifying == {p \in Producers : pc[p] = "s_notify"}

\* the untimed receivers that wait for an item
UntimedWaiting == {c \in Consumers : Pending(c) /\ timeout_ms[c] < 0}

\* the calls of receive() that have returned with an item
Delivered ==
    Len(received)
      - Cardinality({c \in Consumers : pc[c] = "r_ret" /\ result[c] = "true"})

\* C20 (no lost wake-up): while any receiver is blocked, every item in the
\* queue has a receiver that is awake in its call or a sender about to call
\* notify_one() to account for it; and under fair scheduling, when k items
\* are in the queue while k untimed receivers wait, k more calls of
\* receive() return with an item.
C20_NoLostWakeup ==
    /\ [](cond_var_ # {} =>
            Len(queue_) <= Cardinality(Awake) + Cardinality(Notifying))
    /\ \A k \in 1..Cardinality(Consumers) : \A n \in 0..Cardinality(Producers) :
          (/\ Len(queue_) >= k
           /\ Cardinality(UntimedWaiting) >= k
           /\ Len(received) = n)
             ~> (Delivered >= n + k)

\* two items are in the queue while both receivers, untimed, are blocked
\* or woken, one of them still blocked
C20_Witness ==
    /\ Len(queue_) = 2
    /\ Cardinality(UntimedWaiting) = 2
    /\ cond_var_ # {}

=============================================================================
